---------------------------- MODULE Spec2Model ----------------------------
(***************************************************************************)
(* Model of the trash-reminder bot's schedule resolver: holiday_rules.py   *)
(* (holiday calendar and zone shift chart) and the parts of main.py that   *)
(* resolve the recycling type and the holiday note of a reminder.          *)
(*                                                                         *)
(* A calendar date is modelled by its proleptic Gregorian ordinal, as      *)
(* datetime.date.toordinal() gives it (0001-01-01 is day 1, a Monday);     *)
(* adding timedelta(days=n) is integer addition.  Optional[str] values are *)
(* records [some, val]: None is [some |-> FALSE], a string s (possibly     *)
(* empty) is [some |-> TRUE, val |-> s].                                   *)
(***************************************************************************)
EXTENDS Integers, Sequences, FiniteSets, TLC

(***************************************************************************)
(* Bounds of the model.                                                    *)
(***************************************************************************)
\* Reference dates range over whole weeks around the recycling anchor Monday.
WeeksBefore == 4
WeeksAfter == 56
\* Years passed to the holiday calculator: 2026 - YearSpan .. 2026 + YearSpan.
YearSpan == 14

(***************************************************************************)
(* Optional values and truthiness.                                         *)
(***************************************************************************)
None == [some |-> FALSE, val |-> ""]
Str(s) == [some |-> TRUE, val |-> s]
\* Python truthiness of an Optional[str]: None and "" are falsy.
Truthy(o) == o.some /\ o.val # ""

\* F applied to the value of e, with e evaluated once.
With(e, F(_)) == CHOOSE r \in {F(x) : x \in {e}} : TRUE

(***************************************************************************)
(* datetime.date arithmetic (the standard library's algorithms).           *)
(***************************************************************************)
is_leap(y) == y % 4 = 0 /\ (y % 100 # 0 \/ y % 400 = 0)

days_before_year(y) ==
    LET p == y - 1 IN p * 365 + p \div 4 - p \div 100 + p \div 400

days_in_month(y, m) ==
    IF m = 2 THEN (IF is_leap(y) THEN 29 ELSE 28)
    ELSE IF m \in {4, 6, 9, 11} THEN 30 ELSE 31

RECURSIVE days_before_month(_, _)
days_before_month(y, m) ==
    IF m = 1 THEN 0 ELSE days_before_month(y, m - 1) + days_in_month(y, m - 1)

\* date(year, month, day) as an ordinal.
date(y, m, d) == days_before_year(y) + days_before_month(y, m) + d

\* d.year : datetime's _ord2ymd.
year_of(d) ==
    LET n0 == d - 1
        n400 == n0 \div 146097
        r400 == n0 % 146097
        n100 == r400 \div 36524
        r100 == r400 % 36524
        n4 == r100 \div 1461
        r4 == r100 % 1461
        n1 == r4 \div 365
        y == n400 * 400 + 1 + n100 * 100 + n4 * 4 + n1
    IN IF n1 = 4 \/ n100 = 4 THEN y - 1 ELSE y

month_of(d) ==
    LET y == year_of(d)
        n == d - days_before_year(y)
    IN CHOOSE m \in 1..12 :
         days_before_month(y, m) < n /\ n <= days_before_month(y, m) + days_in_month(y, m)

day_of(d) ==
    LET y == year_of(d) IN d - days_before_year(y) - days_before_month(y, month_of(d))

\* d.weekday(): Monday = 0 ... Sunday = 6.
weekday(d) == (d + 6) % 7

DAY_NAMES == <<"Monday", "Tuesday", "Wednesday", "Thursday", "Friday", "Saturday", "Sunday">>
\* The collection days a subscriber can have.
WEEKDAY_NAMES == {"Monday", "Tuesday", "Wednesday", "Thursday", "Friday"}

\* A plausible slip: the day-name table indexed as if Sunday were day 0.
strftime_A_SundayFirst(d) == DAY_NAMES[((weekday(d) + 1) % 7) + 1]
\* d.strftime("%A")
strftime_A(d) == DAY_NAMES[weekday(d) + 1]

\* d.isoformat(): the key "YYYY-MM-DD", kept as its three numeric fields.
isoformat(d) == <<year_of(d), month_of(d), day_of(d)>>

\* monday_of(d)
monday_of(d) == d - weekday(d)

(***************************************************************************)
(* holiday_rules.py                                                        *)
(***************************************************************************)
ZONES == {"Zone 1", "Zone 2", "Zone 3", "Zone 4"}

\* dict.get(key, default)
DictGet(dict, key, default) == IF key \in DOMAIN dict THEN dict[key] ELSE default

\* A plausible slip: every row of a zone filled with one day, the same for
\* all holiday weekdays, so that the holiday's own weekday is among them.
HOLIDAY_SHIFT_RULES_OneDayPerZone ==
    [z \in ZONES |->
        [wd \in {"Monday", "Tuesday", "Wednesday", "Thursday", "Friday"} |->
            CASE z = "Zone 1" -> "Monday"
              [] z = "Zone 2" -> "Tuesday"
              [] z = "Zone 3" -> "Wednesday"
              [] z = "Zone 4" -> "Friday"]]

\* The township's holiday shift chart.
HOLIDAY_SHIFT_RULES ==
    [z \in ZONES |->
        CASE z = "Zone 1" ->
               [wd \in {"Monday", "Tuesday", "Wednesday", "Thursday", "Friday"} |->
                   CASE wd = "Monday" -> "Tuesday"
                     [] wd = "Tuesday" -> "Monday"
                     [] wd = "Wednesday" -> "Monday"
                     [] wd = "Thursday" -> "Monday"
                     [] wd = "Friday" -> "Monday"]
          [] z = "Zone 2" ->
               [wd \in {"Monday", "Tuesday", "Wednesday", "Thursday", "Friday"} |->
                   CASE wd = "Monday" -> "Wednesday"
                     [] wd = "Tuesday" -> "Wednesday"
                     [] wd = "Wednesday" -> "Tuesday"
                     [] wd = "Thursday" -> "Tuesday"
                     [] wd = "Friday" -> "Tuesday"]
          [] z = "Zone 3" ->
               [wd \in {"Monday", "Tuesday", "Wednesday", "Thursday", "Friday"} |->
                   CASE wd = "Monday" -> "Thursday"
                     [] wd = "Tuesday" -> "Thursday"
                     [] wd = "Wednesday" -> "Thursday"
                     [] wd = "Thursday" -> "Wednesday"
                     [] wd = "Friday" -> "Wednesday"]
          [] z = "Zone 4" ->
               [wd \in {"Monday", "Tuesday", "Wednesday", "Thursday", "Friday"} |->
                   CASE wd = "Monday" -> "Friday"
                     [] wd = "Tuesday" -> "Friday"
                     [] wd = "Wednesday" -> "Friday"
                     [] wd = "Thursday" -> "Friday"
                     [] wd = "Friday" -> "Thursday"]]

MONDAY == 0
THURSDAY == 3

\* calendar.monthcalendar(year, month): the month's weeks, Monday first, each a
\* row of seven day numbers with 0 for the days outside the month.
monthcalendar(year, month) ==
    LET first == weekday(date(year, month, 1))
        ndays == days_in_month(year, month)
        nweeks == (first + ndays + 6) \div 7
    IN [w \in 1..nweeks |->
          [c \in 1..7 |->
              LET dnum == (w - 1) * 7 + c - first
              IN IF dnum >= 1 /\ dnum <= ndays THEN dnum ELSE 0]]

\* A result that may be an exception instead of a value.
Raise == [raised |-> TRUE, value |-> 0]
Return(v) == [raised |-> FALSE, value |-> v]

\* for week in reversed(cal): the first week, from the end, holding the weekday.
RECURSIVE scan_last(_, _, _, _, _)
scan_last(cal, i, year, month, wd) ==
    IF i < 1 THEN Raise
    ELSE IF cal[i][wd + 1] # 0 THEN Return(date(year, month, cal[i][wd + 1]))
    ELSE scan_last(cal, i - 1, year, month, wd)

\* for week in cal: count the weeks holding the weekday, return at count == n.
RECURSIVE scan_nth(_, _, _, _, _, _, _)
scan_nth(cal, i, count, year, month, wd, n) ==
    IF i > Len(cal) THEN Raise
    ELSE IF cal[i][wd + 1] # 0
         THEN IF count + 1 = n THEN Return(date(year, month, cal[i][wd + 1]))
              ELSE scan_nth(cal, i + 1, count + 1, year, month, wd, n)
         ELSE scan_nth(cal, i + 1, count, year, month, wd, n)

\* A plausible slip: a missing n-th occurrence answered with the last one
\* of the month instead of an error.
nth_weekday_of_month_LastWhenMissing(year, month, wd, n) ==
    LET cal == monthcalendar(year, month)
        r == scan_nth(cal, 1, 0, year, month, wd, n)
    IN IF n = -1 \/ r.raised THEN scan_last(cal, Len(cal), year, month, wd) ELSE r

\* A plausible slip: the occurrence counter started at 1 instead of 0.
nth_weekday_of_month_CountFromOne(year, month, wd, n) ==
    LET cal == monthcalendar(year, month)
    IN IF n = -1 THEN scan_last(cal, Len(cal), year, month, wd)
       ELSE scan_nth(cal, 1, 1, year, month, wd, n)
nth_weekday_of_month(year, month, wd, n) ==
    LET cal == monthcalendar(year, month)
    IN IF n = -1 THEN scan_last(cal, Len(cal), year, month, wd)
       ELSE scan_nth(cal, 1, 0, year, month, wd, n)

\* A plausible slip: Thanksgiving computed in month 12 instead of 11.
calculate_federal_holidays_ThanksgivingDecember(year) ==
    LET mlk == nth_weekday_of_month(year, 1, MONDAY, 3)
        mem == nth_weekday_of_month(year, 5, MONDAY, -1)
        lab == nth_weekday_of_month(year, 9, MONDAY, 1)
        thx == nth_weekday_of_month(year, 12, THURSDAY, 4)
    IN IF mlk.raised \/ mem.raised \/ lab.raised \/ thx.raised THEN Raise
       ELSE Return(<<
              [name |-> "New Year's Day", date |-> date(year, 1, 1)],
              [name |-> "Martin Luther King Jr. Day", date |-> mlk.value],
              [name |-> "Memorial Day", date |-> mem.value],
              [name |-> "Juneteenth", date |-> date(year, 6, 19)],
              [name |-> "Independence Day", date |-> date(year, 7, 4)],
              [name |-> "Labor Day", date |-> lab.value],
              [name |-> "Thanksgiving Day", date |-> thx.value],
              [name |-> "Christmas Day", date |-> date(year, 12, 25)]>>)

\* calculate_federal_holidays(year): raises when one of its date rules raises.
calculate_federal_holidays(year) ==
    LET mlk == nth_weekday_of_month(year, 1, MONDAY, 3)
        mem == nth_weekday_of_month(year, 5, MONDAY, -1)
        lab == nth_weekday_of_month(year, 9, MONDAY, 1)
        thx == nth_weekday_of_month(year, 11, THURSDAY, 4)
    IN IF mlk.raised \/ mem.raised \/ lab.raised \/ thx.raised THEN Raise
       ELSE Return(<<
              [name |-> "New Year's Day", date |-> date(year, 1, 1)],
              [name |-> "Martin Luther King Jr. Day", date |-> mlk.value],
              [name |-> "Memorial Day", date |-> mem.value],
              [name |-> "Juneteenth", date |-> date(year, 6, 19)],
              [name |-> "Independence Day", date |-> date(year, 7, 4)],
              [name |-> "Labor Day", date |-> lab.value],
              [name |-> "Thanksgiving Day", date |-> thx.value],
              [name |-> "Christmas Day", date |-> date(year, 12, 25)]>>)

\* A plausible slip: the chart read off by one column (the row of the day after).
get_shifted_collection_day_NextColumn(holiday_date, zone) ==
    IF zone \notin DOMAIN HOLIDAY_SHIFT_RULES THEN ""
    ELSE LET holiday_weekday == strftime_A(holiday_date)
         IN IF holiday_weekday \in {"Saturday", "Sunday"} THEN ""
            ELSE DictGet(HOLIDAY_SHIFT_RULES[zone], strftime_A(holiday_date + 1), "")
get_shifted_collection_day(holiday_date, zone) ==
    IF zone \notin DOMAIN HOLIDAY_SHIFT_RULES THEN ""
    ELSE LET holiday_weekday == strftime_A(holiday_date)
         IN IF holiday_weekday \in {"Saturday", "Sunday"} THEN ""
            ELSE DictGet(HOLIDAY_SHIFT_RULES[zone], holiday_weekday, "")

get_all_holidays_for_year(year) == calculate_federal_holidays(year)

(***************************************************************************)
(* main.py: configuration read from the environment at import.             *)
(***************************************************************************)
\* json.loads of a configuration blob: a dict, or some other JSON value.
JDict(f) == [kind |-> "dict", items |-> f]
JOther == [kind |-> "other", items |-> <<>>]

VARIABLES
    HOLIDAY_OVERRIDES,  \* {iso date: {zone: note}} from HOLIDAY_OVERRIDES_JSON
    HOLIDAY_RULES,      \* {zone: {holiday name: weekday}} from HOLIDAY_RULES_JSON
    TWILIO_TEMPLATE_SID_WELCOME,  \* the welcome template SID, "" when not configured
    pc,                 \* "idle", or "done" once a call has returned
    call,               \* the last call: its operation, arguments and result
    scrape_cache,       \* the lru_cache of _scrape_zone_index: (zone, year) -> index
    resolver,           \* per caller, the resolution of a (zone, date) in progress
    memo,               \* history: the first result returned for each (zone, date)
    handler,            \* per web worker, the POST / in progress
    USERS,              \* the subscriber list (users.json)
    now,                \* the US/Eastern wall clock
    job,                \* the run of send_weekly_reminders in progress
    cron,               \* the cron.py process
    outbox              \* the messages handed to Twilio, oldest first

configVars == <<HOLIDAY_OVERRIDES, HOLIDAY_RULES, TWILIO_TEMPLATE_SID_WELCOME>>
resolveVars == <<scrape_cache, resolver, memo>>
serviceVars == <<handler, USERS, now, job, cron, outbox>>
vars == <<HOLIDAY_OVERRIDES, HOLIDAY_RULES, TWILIO_TEMPLATE_SID_WELCOME, pc, call,
          scrape_cache, resolver, memo, handler, USERS, now, job, cron, outbox>>

ZONE_URLS == ZONES

\* The seed RECYCLE_2026_FIRST_PAPER_ISO at its default, "2026-01-05".
FIRST_PAPER_2026 == date(2026, 1, 5)
SCHEDULE_WEEKS == 53

\* A plausible slip: the alternation started on the wrong parity.
build_alternating_schedule_OddPaper(start_monday, weeks) ==
    [d \in {start_monday + 7 * i : i \in 0..(weeks - 1)} |->
        IF ((d - start_monday) \div 7) % 2 = 1 THEN "Paper" ELSE "Commingled"]
\* build_alternating_schedule(start_monday, weeks): week i is keyed by
\* start_monday + i weeks, for i in range(weeks).
build_alternating_schedule(start_monday, weeks) ==
    [d \in {start_monday + 7 * i : i \in 0..(weeks - 1)} |->
        IF ((d - start_monday) \div 7) % 2 = 0 THEN "Paper" ELSE "Commingled"]

RECYCLING_SCHEDULE == build_alternating_schedule(FIRST_PAPER_2026, SCHEDULE_WEEKS)

\* get_recycling_type_for_date(d): the table's entry for d's Monday, "Paper"
\* when the table has none.
get_recycling_type_for_date(d) == DictGet(RECYCLING_SCHEDULE, monday_of(d), "Paper")

(***************************************************************************)
(* main.py: the zone holiday index and the note for a week.                *)
(***************************************************************************)
\* _scrape_zone_index(zone, year): one entry per holiday of the year with the
\* zone's shifted day ("" when there is none).
scrape_zone_index(zone, year) ==
    With(get_all_holidays_for_year(year),
         LAMBDA holidays :
            IF holidays.raised THEN Raise
            ELSE Return([i \in 1..Len(holidays.value) |->
                           [date |-> holidays.value[i].date,
                            name |-> holidays.value[i].name,
                            weekday |-> get_shifted_collection_day(holidays.value[i].date,
                                                                   zone)]]))

\* for r in idx: the first entry whose date lies in [wk_mon, wk_sun]; 0 if none.
first_in_week(idx, wk_mon, wk_sun) ==
    LET hits == {i \in 1..Len(idx) : wk_mon <= idx[i].date /\ idx[i].date <= wk_sun}
    IN IF hits = {} THEN 0 ELSE CHOOSE i \in hits : \A j \in hits : i <= j

\* A plausible slip: the shifted day printed where the holiday's weekday belongs.
shift_note_ShiftedDayTwice(r) ==
    IF r.weekday # ""
    THEN r.name \o " on " \o r.weekday \o ". Pickup shifted to "
         \o r.weekday \o " this week."
    ELSE r.name \o " this week. Your regular pickup schedule is unchanged."

\* The text get_next_holiday_shift returns for the index entry r.
shift_note(r) ==
    IF r.weekday # ""
    THEN r.name \o " on " \o strftime_A(r.date) \o ". Pickup shifted to "
         \o r.weekday \o " this week."
    ELSE r.name \o " this week. Your regular pickup schedule is unchanged."

\* A plausible slip: the guard on the zone left out.
get_next_holiday_shift_NoZoneCheck(zone, ref_date) ==
    With(scrape_zone_index(zone, year_of(ref_date)),
         LAMBDA idx :
            IF idx.raised THEN Raise
            ELSE LET wk_mon == ref_date - weekday(ref_date)
                     wk_sun == wk_mon + 6
                     k == first_in_week(idx.value, wk_mon, wk_sun)
                 IN IF k = 0 THEN Return(None)
                    ELSE Return(Str(shift_note(idx.value[k]))))

\* get_next_holiday_shift(zone, ref_date)
get_next_holiday_shift(zone, ref_date) ==
    IF zone = "" \/ zone \notin ZONE_URLS THEN Return(None)
    ELSE With(scrape_zone_index(zone, year_of(ref_date)),
              LAMBDA idx :
                 IF idx.raised THEN Raise
                 ELSE LET wk_mon == ref_date - weekday(ref_date)
                          wk_sun == wk_mon + 6
                          k == first_in_week(idx.value, wk_mon, wk_sun)
                      IN IF k = 0 THEN Return(None)
                         ELSE Return(Str(shift_note(idx.value[k]))))

\* holiday_note_from_overrides(zone, d): AttributeError when the table, or the
\* date's entry, is a JSON value without .get.
holiday_note_from_overrides(zone, d) ==
    IF zone = "" THEN Return(None)
    ELSE IF HOLIDAY_OVERRIDES.kind # "dict" THEN Raise
    ELSE LET row == DictGet(HOLIDAY_OVERRIDES.items, isoformat(d), JDict(<<>>))
         IN IF row.kind # "dict" THEN Raise
            ELSE Return(DictGet(row.items, zone, None))

\* The dates of a month that fall on a weekday, in order.
weekday_dates(y, month, wd) ==
    LET first == date(y, month, 1) + ((wd - weekday(date(y, month, 1))) % 7)
        last == date(y, month, days_in_month(y, month))
    IN [k \in 1..((last - first) \div 7 + 1) |-> first + 7 * (k - 1)]

\* us_holiday_in_week(d): the holiday of the year of the week's Monday that
\* falls in the week of d, fixed dates first.
us_holiday_in_week(d) ==
    LET wk_mon == d - weekday(d)
        wk_sun == wk_mon + 6
        y == year_of(wk_mon)
        in_week(m, dd) == wk_mon <= date(y, m, dd) /\ date(y, m, dd) <= wk_sun
        within(t) == wk_mon <= t /\ t <= wk_sun
        nth_weekday(month, wd, n) == weekday_dates(y, month, wd)[n]
        last_weekday(month, wd) ==
            weekday_dates(y, month, wd)[Len(weekday_dates(y, month, wd))]
    IN IF in_week(1, 1) THEN Str("New Year's Day")
       ELSE IF in_week(6, 19) THEN Str("Juneteenth")
       ELSE IF in_week(7, 4) THEN Str("Independence Day")
       ELSE IF in_week(11, 11) THEN Str("Veterans Day")
       ELSE IF in_week(12, 25) THEN Str("Christmas Day")
       ELSE IF within(nth_weekday(1, 0, 3)) THEN Str("Martin Luther King Jr. Day")
       ELSE IF within(nth_weekday(2, 0, 3)) THEN Str("Presidents Day")
       ELSE IF within(last_weekday(5, 0)) THEN Str("Memorial Day")
       ELSE IF within(nth_weekday(9, 0, 1)) THEN Str("Labor Day")
       ELSE IF within(nth_weekday(10, 0, 2)) THEN Str("Columbus/Indigenous Peoples Day")
       ELSE IF within(nth_weekday(11, 3, 4)) THEN Str("Thanksgiving Day")
       ELSE None

\* holiday_note_from_rules(zone, d)
holiday_note_from_rules(zone, d) ==
    IF zone = "" THEN Return(None)
    ELSE LET name == us_holiday_in_week(d)
         IN IF ~Truthy(name) THEN Return(None)
            ELSE IF HOLIDAY_RULES.kind # "dict" THEN Raise
            ELSE LET row == DictGet(HOLIDAY_RULES.items, zone, JDict(<<>>))
                 IN IF row.kind # "dict" THEN Raise
                    ELSE LET wd == DictGet(row.items, name.val, None)
                         IN IF Truthy(wd)
                            THEN Return(Str(name.val \o ": collection on " \o wd.val \o "."))
                            ELSE Return(Str(name.val \o ": collection may shift."))

(***************************************************************************)
(* main.py: send_weekly_reminders, the part run for one subscriber whose   *)
(* collection day is tomorrow.                                             *)
(***************************************************************************)
Chain(raised, note, consulted) ==
    [raised |-> raised, note |-> note, consulted |-> consulted]

\* A plausible slip: the zone index asked before the per-date override.
holiday_note_chain_IndexFirst(zone, tomorrow) ==
    IF zone \notin ZONES THEN Chain(FALSE, None, <<>>)
    ELSE With(get_next_holiday_shift(zone, tomorrow),
      LAMBDA g :
        IF ~g.raised /\ g.value.some THEN Chain(FALSE, g.value, <<"index">>)
        ELSE With(holiday_note_from_overrides(zone, tomorrow),
          LAMBDA o :
            IF o.raised THEN Chain(TRUE, None, <<"index", "overrides">>)
            ELSE IF o.value.some THEN Chain(FALSE, o.value, <<"index", "overrides">>)
            ELSE With(holiday_note_from_rules(zone, tomorrow),
              LAMBDA r :
                IF r.raised THEN Chain(TRUE, None, <<"index", "overrides", "rules">>)
                ELSE Chain(FALSE, r.value, <<"index", "overrides", "rules">>))))

\* A plausible slip: "if not holiday_note" in place of "if holiday_note is None",
\* so that an empty note falls through to the next source.
holiday_note_chain_Falsy(zone, tomorrow) ==
    IF zone \notin ZONES THEN Chain(FALSE, None, <<>>)
    ELSE With(holiday_note_from_overrides(zone, tomorrow),
      LAMBDA o :
        IF o.raised THEN Chain(TRUE, None, <<"overrides">>)
        ELSE IF Truthy(o.value) THEN Chain(FALSE, o.value, <<"overrides">>)
        ELSE With(get_next_holiday_shift(zone, tomorrow),
          LAMBDA g :
            IF ~g.raised /\ Truthy(g.value)
            THEN Chain(FALSE, g.value, <<"overrides", "index">>)
            ELSE With(holiday_note_from_rules(zone, tomorrow),
              LAMBDA r :
                IF r.raised THEN Chain(TRUE, None, <<"overrides", "index", "rules">>)
                ELSE Chain(FALSE, r.value, <<"overrides", "index", "rules">>))))

\* The holiday note of a reminder: per-date override, then the zone index, then
\* the local rules; "consulted" lists the sources called, in order.  Only
\* NameError is caught around the override and rules lookups, any exception
\* around the index lookup.
holiday_note_chain(zone, tomorrow) ==
    IF zone \notin ZONES THEN Chain(FALSE, None, <<>>)
    ELSE With(holiday_note_from_overrides(zone, tomorrow),
      LAMBDA o :
        IF o.raised THEN Chain(TRUE, None, <<"overrides">>)
        ELSE IF o.value.some THEN Chain(FALSE, o.value, <<"overrides">>)
        ELSE With(get_next_holiday_shift(zone, tomorrow),
          LAMBDA g :
            IF ~g.raised /\ g.value.some
            THEN Chain(FALSE, g.value, <<"overrides", "index">>)
            ELSE With(holiday_note_from_rules(zone, tomorrow),
              LAMBDA r :
                IF r.raised THEN Chain(TRUE, None, <<"overrides", "index", "rules">>)
                ELSE Chain(FALSE, r.value, <<"overrides", "index", "rules">>))))

\* template_sid = template_holiday if (holiday_note and template_holiday)
\*                else template_basic
choose_template(holiday_note, template_basic, template_holiday) ==
    IF Truthy(holiday_note) /\ template_holiday # "" THEN template_holiday
    ELSE template_basic

\* Recycling type, holiday note, template and template variables of the
\* reminder for a subscriber of the zone; the two template SIDs are read from
\* the environment at that moment.
reminder_for(zone, street_label, tomorrow, template_basic, template_holiday) ==
    With(<<get_recycling_type_for_date(tomorrow), holiday_note_chain(zone, tomorrow)>>,
      LAMBDA rc :
        With(choose_template(rc[2].note, template_basic, template_holiday),
          LAMBDA template_sid :
            [raised |-> rc[2].raised,
             recycling_type |-> rc[1],
             holiday_note |-> rc[2].note,
             consulted |-> rc[2].consulted,
             template |-> template_sid,
             status |-> IF rc[2].raised THEN "raised"
                        ELSE IF template_sid = "" THEN "skipped" ELSE "send",
             error |-> IF ~rc[2].raised /\ template_sid = ""
                       THEN "missing_template_sid" ELSE "",
             vars_map |-> IF Truthy(rc[2].note)
                          THEN <<street_label, rc[2].note.val, rc[1]>>
                          ELSE <<street_label, rc[1]>>]))

(***************************************************************************)
(* The state machine: the configuration is fixed at import; each action is *)
(* one call of a resolver function, whose result is held until it returns.  *)
(***************************************************************************)
Dates == (FIRST_PAPER_2026 - 7 * WeeksBefore)..(FIRST_PAPER_2026 + 7 * WeeksAfter - 1)
Years == (2026 - YearSpan)..(2026 + YearSpan)
ZoneInputs == ZONES \cup {"", "Zone 9"}

OverrideTables ==
    { JDict(<<>>),
      JDict(<<2025, 12, 25>> :> JDict("Zone 3" :> Str("Christmas: pickup moves to Saturday.")
                                      @@ "Zone 1" :> Str("")
                                      @@ "Zone 2" :> None)
            @@ <<2026, 3, 10>> :> JDict("Zone 2" :> Str("Snow emergency: pickup moves to Friday."))
            @@ <<2026, 11, 11>> :> JDict("Zone 4" :> Str("Veterans Day: regular pickup."))
            @@ <<2026, 7, 1>> :> JOther),
      JOther }

RuleTables ==
    { JDict(<<>>),
      JDict("Zone 1" :> JDict("Christmas Day" :> Str("Friday")
                              @@ "Veterans Day" :> Str("Thursday"))
            @@ "Zone 2" :> JOther),
      JOther }

\* The callers that may resolve concurrently (web workers and the cron job).
Callers == {1, 2}

\* Nothing is being resolved, and the index cache is empty.
ResolveIdle ==
    /\ scrape_cache = <<>>
    /\ resolver = [p \in Callers |-> [pc |-> "idle"]]
    /\ memo = <<>>

\* No subscriber, no reminder run, no cron process, nothing sent.
ServiceIdle ==
    /\ handler = [p \in Callers |-> [pc |-> "idle"]]
    /\ USERS = <<>>
    /\ now = [date |-> FIRST_PAPER_2026, hour |-> 0, minute |-> 0]
    /\ job = [pc |-> "idle"]
    /\ cron = [pc |-> "idle"]
    /\ outbox = <<>>

Init ==
    /\ HOLIDAY_OVERRIDES \in OverrideTables
    /\ HOLIDAY_RULES \in RuleTables
    /\ TWILIO_TEMPLATE_SID_WELCOME = "HXwelcome"
    /\ pc = "idle"
    /\ call = [op |-> "none"]
    /\ ResolveIdle
    /\ ServiceIdle

CallShift ==
    /\ pc = "idle"
    /\ \E d \in Dates, zone \in ZoneInputs :
         call' = [op |-> "get_shifted_collection_day", date |-> d, zone |-> zone,
                  result |-> get_shifted_collection_day(d, zone)]
    /\ pc' = "done"
    /\ UNCHANGED <<configVars, resolveVars, serviceVars>>

CallHolidays ==
    /\ pc = "idle"
    /\ \E year \in Years :
         call' = [op |-> "get_all_holidays_for_year", year |-> year,
                  result |-> get_all_holidays_for_year(year)]
    /\ pc' = "done"
    /\ UNCHANGED <<configVars, resolveVars, serviceVars>>

CallRecycling ==
    /\ pc = "idle"
    /\ \E d \in Dates :
         call' = [op |-> "get_recycling_type_for_date", date |-> d,
                  result |-> get_recycling_type_for_date(d)]
    /\ pc' = "done"
    /\ UNCHANGED <<configVars, resolveVars, serviceVars>>

CallReminder ==
    /\ pc = "idle"
    /\ \E d \in Dates, zone \in ZoneInputs :
       \E tb \in {"", "HXbasic"}, th \in {"", "HXholiday"} :
         call' = [op |-> "reminder", date |-> d, zone |-> zone,
                  template_basic |-> tb, template_holiday |-> th,
                  result |-> reminder_for(zone, "229 Ardleigh Rd", d, tb, th)]
    /\ pc' = "done"
    /\ UNCHANGED <<configVars, resolveVars, serviceVars>>

CallNextShift ==
    /\ pc = "idle"
    /\ \E d \in Dates, zone \in ZoneInputs :
         call' = [op |-> "get_next_holiday_shift", date |-> d, zone |-> zone,
                  result |-> get_next_holiday_shift(zone, d)]
    /\ pc' = "done"
    /\ UNCHANGED <<configVars, resolveVars, serviceVars>>

Done ==
    /\ pc = "done"
    /\ pc' = "idle"
    /\ call' = [op |-> "none"]
    /\ UNCHANGED <<configVars, resolveVars, serviceVars>>

Next ==
    CallShift \/ CallHolidays \/ CallRecycling \/ CallNextShift \/ CallReminder \/ Done

Spec == Init /\ [][Next]_vars

(***************************************************************************)
(* holiday_rules.py: nth_weekday_of_month called on its own, over every     *)
(* month of the years of the model.                                        *)
(***************************************************************************)
NthInputs == -2..6

InitCalendar ==
    /\ HOLIDAY_OVERRIDES = JDict(<<>>)
    /\ HOLIDAY_RULES = JDict(<<>>)
    /\ TWILIO_TEMPLATE_SID_WELCOME = "HXwelcome"
    /\ pc = "idle"
    /\ call = [op |-> "none"]
    /\ ResolveIdle
    /\ ServiceIdle

CallNth ==
    /\ pc = "idle"
    /\ \E year \in Years, month \in 1..12, wd \in 0..6, n \in NthInputs :
         call' = [op |-> "nth_weekday_of_month", year |-> year, month |-> month,
                  weekday |-> wd, n |-> n,
                  result |-> nth_weekday_of_month(year, month, wd, n)]
    /\ pc' = "done"
    /\ UNCHANGED <<configVars, resolveVars, serviceVars>>

NthDone ==
    /\ pc = "done"
    /\ call.op = "nth_weekday_of_month"
    /\ pc' = "idle"
    /\ call' = [op |-> "none"]
    /\ UNCHANGED <<configVars, resolveVars, serviceVars>>

NextCalendar == CallNth \/ NthDone

SpecCalendar == InitCalendar /\ [][NextCalendar]_vars

(***************************************************************************)
(* Concurrent resolution of (zone, date) pairs, step by step, with the     *)
(* lru_cache(maxsize=16) of _scrape_zone_index as shared state.  A step is *)
(* what one caller does between two accesses of the cache.                 *)
(***************************************************************************)
CACHE_MAXSIZE == 16

\* A plausible slip: the index cached per zone, whatever the year.
cache_key_ZoneOnly(zone, year) == <<zone, 0>>
\* The key lru_cache makes of the arguments of _scrape_zone_index.
cache_key(zone, year) == <<zone, year>>

\* The cache is a sequence of [key, value], least recently used first.
cache_find(cache, key) ==
    LET hits == {i \in 1..Len(cache) : cache[i].key = key}
    IN IF hits = {} THEN 0 ELSE CHOOSE i \in hits : TRUE

\* A hit makes the entry the most recently used.
cache_touch(cache, k) ==
    [i \in 1..Len(cache) |->
        IF i < k THEN cache[i] ELSE IF i < Len(cache) THEN cache[i + 1] ELSE cache[k]]

\* After a miss: the value is stored unless another caller stored the key
\* meanwhile; a full cache drops its least recently used entry.
cache_insert(cache, key, value) ==
    IF cache_find(cache, key) # 0 THEN cache
    ELSE (IF Len(cache) >= CACHE_MAXSIZE THEN Tail(cache) ELSE cache)
         \o <<[key |-> key, value |-> value]>>

\* The loop of get_next_holiday_shift over an index already at hand.
note_from_index(idx, ref_date) ==
    LET wk_mon == ref_date - weekday(ref_date)
        wk_sun == wk_mon + 6
        k == first_in_week(idx, wk_mon, wk_sun)
    IN IF k = 0 THEN None ELSE Str(shift_note(idx[k]))

Resolved(raised, recycling_type, holiday_note) ==
    [raised |-> raised, recycling_type |-> recycling_type, holiday_note |-> holiday_note]

ResolveZones == {"Zone 1", "Zone 9"}
ResolveDates == {date(2025, 12, 25), date(2025, 12, 29), date(2026, 11, 11)}
ResolveOverrides ==
    { JDict(<<>>),
      JDict(<<2025, 12, 25>> :> JDict("Zone 1" :> Str("Christmas: pickup moves to Saturday."))) }

InitResolve ==
    /\ HOLIDAY_OVERRIDES \in ResolveOverrides
    /\ HOLIDAY_RULES = JDict("Zone 1" :> JDict("Veterans Day" :> Str("Thursday")))
    /\ TWILIO_TEMPLATE_SID_WELCOME = "HXwelcome"
    /\ pc = "idle"
    /\ call = [op |-> "none"]
    /\ scrape_cache = <<>>
    /\ resolver = [p \in Callers |-> [pc |-> "idle"]]
    /\ \E zone \in ResolveZones, d \in ResolveDates :
          memo = [zone |-> zone, date |-> d, seen |-> FALSE, result |-> Resolved(FALSE, "", None)]
    /\ ServiceIdle

\* Caller p has its result res for (zone, d); the history keeps the first
\* result returned for the pair it watches.
Finish(p, zone, d, hit, res) ==
    /\ resolver' = [resolver EXCEPT ![p] = [pc |-> "returned", zone |-> zone, date |-> d,
                                            hit |-> hit, result |-> res]]
    /\ memo' = IF memo.zone = zone /\ memo.date = d /\ ~memo.seen
               THEN [memo EXCEPT !.seen = TRUE, !.result = res]
               ELSE memo

\* Recycling type and the per-date override; the zone index is needed only
\* when the zone is a chart zone and the override table has no note.
ResolveStart(p) ==
    /\ resolver[p].pc = "idle"
    /\ \E zone \in ResolveZones, d \in ResolveDates :
         LET recycling_type == get_recycling_type_for_date(d)
             o == holiday_note_from_overrides(zone, d)
         IN IF zone \notin ZONES
            THEN Finish(p, zone, d, FALSE, Resolved(FALSE, recycling_type, None))
            ELSE IF o.raised
            THEN Finish(p, zone, d, FALSE, Resolved(TRUE, recycling_type, None))
            ELSE IF o.value.some
            THEN Finish(p, zone, d, FALSE, Resolved(FALSE, recycling_type, o.value))
            ELSE /\ resolver' = [resolver EXCEPT ![p] =
                                   [pc |-> "lookup", zone |-> zone, date |-> d,
                                    recycling_type |-> recycling_type]]
                 /\ UNCHANGED memo
    /\ UNCHANGED <<configVars, pc, call, scrape_cache, serviceVars>>

\* The cached call _scrape_zone_index(zone, ref_date.year): a hit returns the
\* stored index, a miss leaves the cache to compute it.
ResolveLookup(p) ==
    /\ resolver[p].pc = "lookup"
    /\ LET r == resolver[p]
           k == cache_find(scrape_cache, cache_key(r.zone, year_of(r.date)))
       IN IF k # 0
          THEN /\ resolver' = [resolver EXCEPT ![p] =
                                 [pc |-> "note", zone |-> r.zone, date |-> r.date,
                                  recycling_type |-> r.recycling_type, hit |-> TRUE,
                                  idx |-> Return(scrape_cache[k].value)]]
               /\ scrape_cache' = cache_touch(scrape_cache, k)
          ELSE /\ resolver' = [resolver EXCEPT ![p].pc = "miss"]
               /\ UNCHANGED scrape_cache
    /\ UNCHANGED <<configVars, pc, call, memo, serviceVars>>

\* After a miss the index is computed outside the cache's lock and then
\* stored; an exception is not cached.
ResolveScrape(p) ==
    /\ resolver[p].pc = "miss"
    /\ LET r == resolver[p]
           idx == scrape_zone_index(r.zone, year_of(r.date))
       IN /\ resolver' = [resolver EXCEPT ![p] =
                            [pc |-> "note", zone |-> r.zone, date |-> r.date,
                             recycling_type |-> r.recycling_type, hit |-> FALSE,
                             idx |-> idx]]
          /\ scrape_cache' = IF idx.raised THEN scrape_cache
                             ELSE cache_insert(scrape_cache,
                                               cache_key(r.zone, year_of(r.date)), idx.value)
    /\ UNCHANGED <<configVars, pc, call, memo, serviceVars>>

\* The note of the week from the index, else from the local rules.
ResolveNote(p) ==
    /\ resolver[p].pc = "note"
    /\ LET r == resolver[p]
           g == IF r.idx.raised THEN None ELSE note_from_index(r.idx.value, r.date)
           rules == holiday_note_from_rules(r.zone, r.date)
       IN IF g.some
          THEN Finish(p, r.zone, r.date, r.hit, Resolved(FALSE, r.recycling_type, g))
          ELSE IF rules.raised
          THEN Finish(p, r.zone, r.date, r.hit, Resolved(TRUE, r.recycling_type, None))
          ELSE Finish(p, r.zone, r.date, r.hit, Resolved(FALSE, r.recycling_type, rules.value))
    /\ UNCHANGED <<configVars, pc, call, scrape_cache, serviceVars>>

\* The caller takes its result and is free for the next resolution.
ResolveReturn(p) ==
    /\ resolver[p].pc = "returned"
    /\ resolver' = [resolver EXCEPT ![p] = [pc |-> "idle"]]
    /\ UNCHANGED <<configVars, pc, call, scrape_cache, memo, serviceVars>>

NextResolve ==
    \E p \in Callers :
       \/ ResolveStart(p)
       \/ ResolveLookup(p)
       \/ ResolveScrape(p)
       \/ ResolveNote(p)
       \/ ResolveReturn(p)

SpecResolve == InitResolve /\ [][NextResolve]_vars

(***************************************************************************)
(* main.py and cron.py: the reminder job.  Text values that the code       *)
(* normalises are modelled so that the normalisation has work to do: a     *)
(* phone number is the sequence of its characters (the prefix "whatsapp:"  *)
(* counts as one, being letters and a colon only), an address is the       *)
(* sequence of its comma-separated parts.  A missing field is the empty    *)
(* value, which the code treats alike (u.get(k) or "").                    *)
(***************************************************************************)
DIGITS == {"0", "1", "2", "3", "4", "5", "6", "7", "8", "9"}

\* normalize_whatsapp_number(raw): drop all but digits and "+", put "+1" in
\* front unless a "+" leads, then "whatsapp:"; empty when nothing is left.
normalize_whatsapp_number(raw) ==
    LET keep(c) == c \in DIGITS \cup {"+"}
        t == SelectSeq(raw, keep)
    IN IF raw = <<>> \/ t = <<>> THEN <<>>
       ELSE <<"whatsapp:">> \o (IF Head(t) = "+" THEN t ELSE <<"+", "1">> \o t)

\* street_number_and_name(addr): the part before the first comma (the inputs
\* of the model carry no unit designator).
street_number_and_name(addr) == IF addr = <<>> THEN "" ELSE Head(addr)

\* str.title() on the zone and weekday strings of the model.
title(t) ==
    CASE t = "thursday" -> "Thursday"
      [] t = "MONDAY" -> "Monday"
      [] t = "zone 4" -> "Zone 4"
      [] t = "zone 2" -> "Zone 2"
      [] t = "friday" -> "Friday"
      [] OTHER -> t

\* A subscriber record as stored in users.json.
Subscriber(phone, street_address, zone, collection_day) ==
    [phone |-> phone, street_address |-> street_address,
     street_label |-> street_number_and_name(street_address),
     zone |-> zone, collection_day |-> collection_day]

Phone(last) == <<"whatsapp:", "+", "1", "5", "5", "5", last>>
Ardleigh == <<"229 Ardleigh Rd", "Penn Valley PA">>
Montgomery == <<"75 E Montgomery Ave", "Ardmore PA">>

\* The subscriber lists the job is run over.
SubscriberLists ==
    { <<>>,
      << Subscriber(Phone("1"), Ardleigh, "Zone 4", "Thursday"),
         Subscriber(Phone("2"), Montgomery, "zone 4", "thursday"),
         Subscriber(Phone("3"), Montgomery, "Zone 1", "Monday") >>,
      << Subscriber(Phone("3"), Montgomery, "Zone 1", "MONDAY"),
         Subscriber(Phone("4"), Ardleigh, "Zone 3", ""),
         Subscriber(Phone("1"), Ardleigh, "Zone 4", "Friday") >>,
      << Subscriber(Phone("5"), Ardleigh, "Zone 2", "Wednesday"),
         Subscriber(<<"5", "5", "5", "5">>, Montgomery, "Zone 3", "Wednesday"),
         Subscriber(Phone("6"), Montgomery, "", "Wednesday") >>,
      << Subscriber(<<>>, Ardleigh, "Zone 2", "Tuesday"),
         Subscriber(Phone("7"), <<>>, "Zone 2", "Tuesday"),
         Subscriber(Phone("8"), Ardleigh, "Zone 2", "Tuesday") >> }

\* The evenings the job is started on, and the times of day.
ClockDates ==
    { date(2025, 12, 24), date(2025, 12, 25), date(2025, 12, 28),
      date(2026, 3, 9), date(2026, 6, 30), date(2026, 7, 3), date(2026, 7, 4),
      date(2026, 11, 10) }
ClockHours == {19, 20, 21}
ClockMinutes == {0, 30}

\* A plausible slip: the evenings taken to be those of the pickup days
\* themselves, Monday to Friday.
should_run_now_MonToFri(t) == weekday(t.date) \in {0, 1, 2, 3, 4} /\ t.hour = 20

\* cron.py should_run_now(): Sunday to Thursday, hour 20, US/Eastern.
should_run_now(t) == weekday(t.date) \in {6, 0, 1, 2, 3} /\ t.hour = 20

\* An environment variable holding JSON: unset (or blank), text that does not
\* parse, or text that parses to a value.
EnvUnset == [text |-> "unset", value |-> JOther]
EnvUnparsable == [text |-> "unparsable", value |-> JOther]
EnvJson(v) == [text |-> "json", value |-> v]

\* json.loads(X) if X else {}, with {} when json.loads raises.
load_json_env(env) == IF env.text = "json" THEN env.value ELSE JDict(<<>>)

OverrideEnvs == {EnvUnset, EnvUnparsable} \cup {EnvJson(t) : t \in OverrideTables}
RuleEnvs == {EnvUnset, EnvUnparsable} \cup {EnvJson(t) : t \in RuleTables}

InitReminders ==
    /\ HOLIDAY_OVERRIDES \in {load_json_env(e) : e \in OverrideEnvs}
    /\ HOLIDAY_RULES \in {load_json_env(e) : e \in RuleEnvs}
    /\ TWILIO_TEMPLATE_SID_WELCOME = "HXwelcome"
    /\ pc = "idle"
    /\ call = [op |-> "none"]
    /\ ResolveIdle
    /\ handler = [p \in Callers |-> [pc |-> "idle"]]
    /\ USERS \in SubscriberLists
    /\ now = [date |-> FIRST_PAPER_2026, hour |-> 0, minute |-> 0]
    /\ job = [pc |-> "idle"]
    /\ cron = [pc |-> "idle"]
    /\ outbox = <<>>

\* send_weekly_reminders() up to its loop, at time t: the subscribers are the
\* in-memory list (no sheet configured); an empty list returns at once.
JobBegin(t, via) ==
    \E tb \in {"", "HXbasic"}, th \in {"", "HXholiday"} :
       job' = [pc |-> IF USERS = <<>> THEN "returned" ELSE "loop",
               via |-> via,
               tomorrow |-> t.date + 1,
               subs |-> USERS,
               i |-> 1,
               seen |-> {},
               results |-> <<>>,
               template_basic |-> tb,
               template_holiday |-> th]

\* cron.py main(): runs the job inside the schedule window, else exits 0.
CronMain ==
    /\ cron.pc = "idle"
    /\ job.pc = "idle"
    /\ \E d \in ClockDates, h \in ClockHours, m \in ClockMinutes :
         LET t == [date |-> d, hour |-> h, minute |-> m]
         IN /\ now' = t
            /\ IF should_run_now(t)
               THEN /\ cron' = [pc |-> "running"]
                    /\ JobBegin(t, "cron")
               ELSE /\ cron' = [pc |-> "exited", code |-> 0, ran |-> FALSE]
                    /\ UNCHANGED job
    /\ UNCHANGED <<configVars, pc, call, resolveVars, handler, USERS, outbox>>

\* cron.py main(): exit status 0 when the job returned, 1 when it raised.
CronExit ==
    /\ cron.pc = "running"
    /\ job.pc \in {"returned", "raised"}
    /\ cron' = [pc |-> "exited", code |-> IF job.pc = "returned" THEN 0 ELSE 1,
                ran |-> TRUE]
    /\ UNCHANGED <<configVars, pc, call, resolveVars, handler, USERS, now, job, outbox>>

\* GET /run_reminders_now: the job started by hand, at any time.
RunRemindersNow ==
    /\ cron.pc = "idle"
    /\ job.pc = "idle"
    /\ \E d \in ClockDates :
         LET t == [date |-> d, hour |-> 12, minute |-> 0]
         IN /\ now' = t
            /\ JobBegin(t, "endpoint")
    /\ UNCHANGED <<configVars, pc, call, resolveVars, handler, USERS, cron, outbox>>

\* One entry of the list send_weekly_reminders returns.
Outcome(phone, template, status, error, vars_map) ==
    [phone |-> phone, template |-> template, status |-> status, error |-> error,
     vars_map |-> vars_map]

\* A plausible slip: the send not wrapped in try/except, so that a failure
\* leaves send_weekly_reminders as an exception.
send_result_Uncaught(accepted) ==
    IF accepted THEN [status |-> "queued", error |-> ""]
    ELSE [status |-> "raised", error |-> "send failed"]

\* try: send_whatsapp_template(...), status "queued"; except Exception as e:
\* status "error", error str(e).
send_result(accepted) ==
    IF accepted THEN [status |-> "queued", error |-> ""]
    ELSE [status |-> "error", error |-> "send failed"]

\* A plausible slip: the check of the collection day left out, so that every
\* subscriber is reminded every evening.
due_Always(collection_day, tomorrow_weekday) == TRUE

\* Tomorrow is this user's collection day.
due(collection_day, tomorrow_weekday) == collection_day = tomorrow_weekday

\* A plausible slip: the set of phones already handled never consulted.
skip_record_EmptyOnly(phone, seen) == phone = <<>>

\* if not phone or phone in seen: continue
skip_record(phone, seen) == phone = <<>> \/ phone \in seen

\* The loop body of send_weekly_reminders for subscriber subs[i]; whether
\* Twilio accepts the message is not the program's choice.
JobStep ==
    /\ job.pc = "loop"
    /\ job.i <= Len(job.subs)
    /\ LET u == job.subs[job.i]
           phone == normalize_whatsapp_number(u.phone)
           addr_full == u.street_address
           street_label == IF u.street_label # "" THEN u.street_label
                           ELSE street_number_and_name(addr_full)
           zone == title(u.zone)
           collection_day == title(u.collection_day)
           tomorrow_weekday == strftime_A(job.tomorrow)
           continue(outcomes) ==
               job' = [job EXCEPT !.i = @ + 1, !.seen = @ \cup {phone},
                                  !.results = @ \o outcomes]
       IN IF skip_record(phone, job.seen)
          THEN job' = [job EXCEPT !.i = @ + 1] /\ UNCHANGED outbox
          ELSE IF addr_full = <<>>
          THEN /\ continue(<<Outcome(phone, "", "skipped", "missing_address", <<>>)>>)
               /\ UNCHANGED outbox
          ELSE IF collection_day = ""
          THEN /\ continue(<<Outcome(phone, "", "skipped", "missing_collection_day", <<>>)>>)
               /\ UNCHANGED outbox
          ELSE IF ~due(collection_day, tomorrow_weekday)
          THEN continue(<<>>) /\ UNCHANGED outbox
          ELSE \E r \in {reminder_for(zone, street_label, job.tomorrow,
                                       job.template_basic, job.template_holiday)} :
                 IF r.status = "raised"
                 THEN /\ job' = [job EXCEPT !.pc = "raised", !.seen = @ \cup {phone}]
                      /\ UNCHANGED outbox
                 ELSE IF r.status = "skipped"
                 THEN /\ continue(<<Outcome(phone, r.template, "skipped",
                                            "missing_template_sid", <<>>)>>)
                      /\ UNCHANGED outbox
                 ELSE \E accepted \in BOOLEAN :
                      \E sent \in {send_result(accepted)} :
                        /\ IF sent.status = "raised"
                           THEN job' = [job EXCEPT !.pc = "raised", !.seen = @ \cup {phone}]
                           ELSE continue(<<Outcome(phone, r.template, sent.status,
                                                   sent.error, r.vars_map)>>)
                        /\ outbox' = IF accepted
                                     THEN Append(outbox, [to |-> phone,
                                                          template |-> r.template,
                                                          vars_map |-> r.vars_map])
                                     ELSE outbox
    /\ UNCHANGED <<configVars, pc, call, resolveVars, handler, USERS, now, cron>>

\* The loop is over: send_weekly_reminders returns its list.
JobReturn ==
    /\ job.pc = "loop"
    /\ job.i > Len(job.subs)
    /\ job' = [job EXCEPT !.pc = "returned"]
    /\ UNCHANGED <<configVars, pc, call, resolveVars, handler, USERS, now, cron, outbox>>

NextReminders == CronMain \/ RunRemindersNow \/ JobStep \/ JobReturn \/ CronExit

SpecReminders == InitReminders /\ [][NextReminders]_vars

(***************************************************************************)
(* main.py: the sign-up webhook, POST /.                                   *)
(***************************************************************************)
\* "agree" in consent.lower(), on the consent texts of the model.
contains_agree(consent) == consent \in {"I agree", "I Agree", "agree", "I disagree"}

\* raw.strip() is empty.
blank(raw) == \A k \in 1..Len(raw) : raw[k] = " "

\* address_lookup.csv, by street number and name: the file is data, it is not
\* part of the source tree.
ADDRESS_LOOKUP ==
    "229 Ardleigh Rd" :> [zone |-> "Zone 1", collection_day |-> "Monday"]

\* lookup_zone_by_address(address): zone and collection day, both "" when the
\* address is not in the file.
lookup_zone_by_address(address) ==
    DictGet(ADDRESS_LOOKUP, street_number_and_name(address),
            [zone |-> "", collection_day |-> ""])

\* A plausible slip: the record on file looked for under the legacy key
\* "phone_number" only.
existing_index_LegacyKeyOnly(users, phone) ==
    LET hits == {k \in 1..Len(users) :
                    "phone_number" \in DOMAIN users[k] /\ users[k].phone_number = phone}
    IN IF hits = {} THEN 0 ELSE CHOOSE k \in hits : \A j \in hits : k <= j

\* next((u for u in USERS if u.get("phone") == phone
\*                         or u.get("phone_number") == phone), None),
\* as the place of the record in the list, 0 for None.
existing_index(users, phone) ==
    LET hits == {k \in 1..Len(users) :
                    \/ users[k].phone = phone
                    \/ ("phone_number" \in DOMAIN users[k] /\ users[k].phone_number = phone)}
    IN IF hits = {} THEN 0 ELSE CHOOSE k \in hits : \A j \in hits : k <= j

Response(status, users, is_new, phone, street_label) ==
    [status |-> status, users |-> users, is_new |-> is_new, phone |-> phone,
     street_label |-> street_label]

\* A plausible slip: the phone not tested again after it is normalized.
rejects_RawPhoneOnly(req) ==
    \/ ~req.json_ok
    \/ blank(req.phone_number) \/ req.street_address = <<>>
    \/ ~contains_agree(req.consent)

\* The four ways webhook() answers 400: the body is not JSON, the phone or
\* the address is missing, the consent does not hold "agree", the phone
\* normalizes to the empty string.
rejects(req) ==
    \/ ~req.json_ok
    \/ blank(req.phone_number) \/ req.street_address = <<>>
    \/ ~contains_agree(req.consent)
    \/ normalize_whatsapp_number(req.phone_number) = <<>>

\* webhook() for a POST with body req, the subscriber list being users: the
\* HTTP status, the list afterwards and whether the phone is new.
webhook(req, users) ==
    IF rejects(req) THEN Response(400, users, FALSE, <<>>, "")
    ELSE LET phone == normalize_whatsapp_number(req.phone_number)
             address == req.street_address
             street_label == street_number_and_name(address)
             zone_in == title(req.zone)
             day_in == title(req.collection_day)
             zone0 == IF zone_in \in ZONES THEN zone_in ELSE ""
             day0 == IF day_in \in WEEKDAY_NAMES THEN day_in ELSE ""
             found == lookup_zone_by_address(address)
             zone == IF zone0 = "" THEN found.zone ELSE zone0
             collection_day == IF day0 = "" THEN found.collection_day ELSE day0
             k == existing_index(users, phone)
         IN IF k # 0
            THEN Response(200,
                          [users EXCEPT ![k] =
                              [@ EXCEPT !.phone = phone,
                                        !.street_address = address,
                                        !.street_label = street_label,
                                        !.zone = IF zone # "" THEN zone ELSE @,
                                        !.collection_day = IF collection_day # ""
                                                           THEN collection_day ELSE @]],
                          FALSE, phone, street_label)
            ELSE Response(200,
                          Append(users, Subscriber(phone, address, zone, collection_day)),
                          TRUE, phone, street_label)

SignupRequest(json_ok, phone_number, street_address, consent, zone, collection_day) ==
    [json_ok |-> json_ok, phone_number |-> phone_number,
     street_address |-> street_address, consent |-> consent, zone |-> zone,
     collection_day |-> collection_day]

\* The POST bodies of the model: three spellings of two phone numbers, and
\* the bodies the handler rejects.
SignupRequests ==
    { SignupRequest(TRUE, <<"5", "5", "5", "1">>, Ardleigh, "I agree", "", ""),
      SignupRequest(TRUE, <<"+", "1", " ", "5", "5", "5", "-", "1">>, Montgomery,
                    "I Agree", "zone 2", "friday"),
      SignupRequest(TRUE, <<"(", "5", "5", ")", "5", "2">>, Montgomery, "agree", "", ""),
      SignupRequest(TRUE, <<"5", "5", "5", "2">>, Ardleigh, "I disagree", "Zone 9", "Sunday"),
      SignupRequest(FALSE, <<>>, <<>>, "", "", ""),
      SignupRequest(TRUE, <<" ">>, Ardleigh, "I agree", "", ""),
      SignupRequest(TRUE, <<"5", "5", "5", "1">>, <<>>, "I agree", "", ""),
      SignupRequest(TRUE, <<"5", "5", "5", "1">>, Ardleigh, "no", "", ""),
      SignupRequest(TRUE, <<"e", "x", "t", ".">>, Ardleigh, "I agree", "", "") }

\* The welcome messages a behaviour of the model keeps track of.
MaxWelcomes == 2

\* users.json as an earlier run of the service saved it.
SavedUsers == << Subscriber(Phone("2"), Ardleigh, "Zone 1", "Monday") >>

InitWebhook ==
    /\ HOLIDAY_OVERRIDES = JDict(<<>>)
    /\ HOLIDAY_RULES = JDict(<<>>)
    /\ TWILIO_TEMPLATE_SID_WELCOME \in {"", "HXwelcome"}
    /\ pc = "idle"
    /\ call = [op |-> "none"]
    /\ ResolveIdle
    /\ handler = [p \in Callers |-> [pc |-> "idle"]]
    /\ now = [date |-> FIRST_PAPER_2026, hour |-> 0, minute |-> 0]
    /\ job = [pc |-> "idle"]
    /\ cron = [pc |-> "idle"]
    /\ outbox = <<>>
    /\ USERS \in {<<>>, SavedUsers}

\* One POST / handled from the request to the response: the upsert, then the
\* welcome message to a new phone when the template is configured (a failed
\* send is logged and the response is 200 all the same).
Signup ==
    /\ Len(outbox) < MaxWelcomes
    /\ \E req \in SignupRequests, accepted \in BOOLEAN :
       \E res \in {webhook(req, USERS)} :
          /\ USERS' = res.users
          /\ outbox' = IF /\ res.status = 200
                          /\ res.is_new
                          /\ TWILIO_TEMPLATE_SID_WELCOME # ""
                          /\ accepted
                       THEN Append(outbox, [to |-> res.phone,
                                            template |-> TWILIO_TEMPLATE_SID_WELCOME,
                                            vars_map |-> <<res.street_label>>])
                       ELSE outbox
          /\ call' = [op |-> "webhook", request |-> req, status |-> res.status,
                      is_new |-> res.is_new, users_before |-> Len(USERS)]
    /\ UNCHANGED <<configVars, pc, resolveVars, handler, now, job, cron>>

(***************************************************************************)
(* main.py: inbound WhatsApp messages, POST /whatsapp_webhook.             *)
(***************************************************************************)
\* str.lower() on a phone string: only the scheme has letters.
lower_phone(p) == [k \in DOMAIN p |-> IF p[k] = "WhatsApp:" THEN "whatsapp:" ELSE p[k]]

\* str.lower() on the message bodies of the model.
lower(body) ==
    CASE body = "STOP" -> "stop"
      [] body = "Cancel" -> "cancel"
      [] body = "Recycling?" -> "recycling?"
      [] OTHER -> body

STOP_WORDS == {"stop", "stop all", "cancel", "unsubscribe", "quit", "end"}

\* "recycl" in lower, and "trash" in lower or "pickup" in lower, on the
\* bodies of the model.
asks_recycling(lowered) == lowered \in {"recycling?"}
asks_pickup(lowered) == lowered \in {"trash day?", "when is pickup"}

\* A plausible slip: the sender compared with the stored phone as spelled.
sender_matches_Exact(p, from_number) == p # <<>> /\ p = from_number

\* p and p.lower() == from_number.lower()
sender_matches(p, from_number) == p # <<>> /\ lower_phone(p) = lower_phone(from_number)

\* USERS.pop(i)
pop(users, i) == SubSeq(users, 1, i - 1) \o SubSeq(users, i + 1, Len(users))

\* for i in range(len(USERS) - 1, -1, -1): the list and the removed flag
\* after the places i, i-1, ..., 1 have been visited.
RECURSIVE stop_scan(_, _, _, _)
stop_scan(users, i, removed, from_number) ==
    IF i = 0 THEN [users |-> users, removed |-> removed]
    ELSE IF sender_matches(users[i].phone, from_number)
         THEN stop_scan(pop(users, i), i - 1, TRUE, from_number)
         ELSE stop_scan(users, i - 1, removed, from_number)

Reply(users, kind, text) == [users |-> users, kind |-> kind, text |-> text]

\* whatsapp_webhook() for a message from from_number with the body given,
\* the subscriber list being users and the date in US/Eastern today: the
\* list afterwards and the reply (its kind, and the parts its text is built
\* from); kind "raised" when the handler ends in an exception.
whatsapp_webhook(from_number, body, users, today) ==
    LET lowered == lower(body)
        on_file == {k \in 1..Len(users) :
                      lower_phone(users[k].phone) = lower_phone(from_number)}
    IN IF from_number = <<>> THEN Reply(users, "missing_sender", <<>>)
       ELSE IF lowered \in STOP_WORDS
       THEN With(stop_scan(users, Len(users), FALSE, from_number),
              LAMBDA r : IF r.removed THEN Reply(r.users, "unsubscribed", <<>>)
                         ELSE Reply(r.users, "not_subscribed", <<>>))
       ELSE IF asks_recycling(lowered)
       THEN Reply(users, "recycling", <<get_recycling_type_for_date(today)>>)
       ELSE IF asks_pickup(lowered)
       THEN IF on_file = {} THEN Reply(users, "not_on_file", <<>>)
            ELSE LET user == users[CHOOSE k \in on_file : \A j \in on_file : k <= j]
                     tomorrow == today + 1
                     zone == title(user.zone)
                 IN With(IF zone \in ZONES THEN holiday_note_chain(zone, tomorrow)
                         ELSE Chain(FALSE, None, <<>>),
                      LAMBDA c :
                        IF c.raised THEN Reply(users, "raised", <<>>)
                        ELSE Reply(users, "reminder",
                                   <<user.street_label,
                                     get_recycling_type_for_date(tomorrow)>>
                                   \o (IF Truthy(c.note) THEN <<c.note.val>> ELSE <<>>)))
       ELSE Reply(users, "help", <<>>)

\* The senders (Twilio's From) and the bodies of the model.
Senders ==
    { Phone("1"), <<"WhatsApp:", "+", "1", "5", "5", "5", "2">>, Phone("9"), <<>> }

Bodies ==
    { "STOP", "stop all", "Cancel", "unsubscribe", "quit", "end",
      "stop please", "Recycling?", "trash day?", "hi" }

\* One POST /whatsapp_webhook handled from the request to the reply.
Inbound ==
    /\ \E from_number \in Senders, body \in Bodies :
       \E r \in {whatsapp_webhook(from_number, body, USERS, now.date)} :
          /\ USERS' = r.users
          /\ call' = [op |-> "whatsapp_webhook", from_number |-> from_number,
                      body |-> body, reply |-> r.kind, text |-> r.text,
                      users_before |-> USERS]
    /\ UNCHANGED <<configVars, pc, resolveVars, handler, now, job, cron, outbox>>

NextWebhook == Signup \/ Inbound

SpecWebhook == InitWebhook /\ [][NextWebhook]_vars

(***************************************************************************)
(* main.py: two POST / handled at the same time by two workers of the web   *)
(* server, step by step; USERS is the list both read and write, and nothing *)
(* in webhook() serializes them.                                           *)
(***************************************************************************)
\* The POST bodies of the two workers: two spellings of one phone, another
\* phone, and a body that is rejected.
ConcurrentRequests ==
    {req \in SignupRequests :
        \/ req.phone_number \in { <<"5", "5", "5", "1">>,
                                  <<"+", "1", " ", "5", "5", "5", "-", "1">>,
                                  <<"(", "5", "5", ")", "5", "2">>,
                                  <<"e", "x", "t", ".">> }
           /\ req.street_address # <<>> /\ req.consent # "no"}

\* The upsert of webhook() once existing has been looked up: k is the place
\* of the record found, 0 for None.
upsert(req, users, k) ==
    IF k = 0 THEN webhook(req, <<>>).users
    ELSE LET one == webhook(req, <<users[k]>>).users
         IN [users EXCEPT ![k] = one[1]]

\* Lines 478-515: the body is read and checked, the phone normalized, the
\* zone and the day validated or looked up.
PostBegin(p) ==
    /\ handler[p].pc = "idle"
    /\ \E req \in ConcurrentRequests :
         handler' = [handler EXCEPT ![p] =
                       IF rejects(req)
                       THEN [pc |-> "done", req |-> req, status |-> 400,
                             phone |-> <<>>, welcome |-> "none"]
                       ELSE [pc |-> "find", req |-> req,
                             phone |-> normalize_whatsapp_number(req.phone_number)]]
    /\ UNCHANGED <<configVars, pc, call, resolveVars, USERS, now, job, cron, outbox>>

\* Lines 518-520: existing = next(...); is_new = existing is None.
PostFind(p) ==
    /\ handler[p].pc = "find"
    /\ handler' = [handler EXCEPT ![p] =
                     [pc |-> "upsert", req |-> @.req, phone |-> @.phone,
                      existing |-> existing_index(USERS, @.phone),
                      is_new |-> existing_index(USERS, @.phone) = 0]]
    /\ UNCHANGED <<configVars, pc, call, resolveVars, USERS, now, job, cron, outbox>>

\* Lines 522-541: the record found is rewritten, or a new record appended;
\* the list is saved.
PostUpsert(p) ==
    /\ handler[p].pc = "upsert"
    /\ USERS' = IF handler[p].existing = 0
                THEN USERS \o upsert(handler[p].req, USERS, 0)
                ELSE upsert(handler[p].req, USERS, handler[p].existing)
    /\ handler' = [handler EXCEPT ![p].pc = "welcome"]
    /\ UNCHANGED <<configVars, pc, call, resolveVars, now, job, cron, outbox>>

\* Lines 543-555: the welcome message when the phone was new and the
\* template is configured (Twilio may refuse it), and the 200 response.
PostWelcome(p) ==
    /\ handler[p].pc = "welcome"
    /\ \E accepted \in BOOLEAN :
         LET send == handler[p].is_new /\ TWILIO_TEMPLATE_SID_WELCOME # ""
         IN /\ outbox' = IF send /\ accepted
                         THEN Append(outbox,
                                     [to |-> handler[p].phone,
                                      template |-> TWILIO_TEMPLATE_SID_WELCOME,
                                      vars_map |-> <<street_number_and_name(
                                                       handler[p].req.street_address)>>])
                         ELSE outbox
            /\ handler' = [handler EXCEPT ![p] =
                             [pc |-> "done", req |-> @.req, status |-> 200,
                              phone |-> @.phone,
                              welcome |-> IF ~send THEN "none"
                                          ELSE IF accepted THEN "sent" ELSE "failed"]]
    /\ UNCHANGED <<configVars, pc, call, resolveVars, USERS, now, job, cron>>

NextConcurrent ==
    \E p \in Callers : PostBegin(p) \/ PostFind(p) \/ PostUpsert(p) \/ PostWelcome(p)

SpecConcurrent == InitWebhook /\ [][NextConcurrent]_vars

(***************************************************************************)
(* Properties.                                                             *)
(***************************************************************************)

\* C1: for every zone of Zone 1..4 and every holiday date that is a Saturday
\* or a Sunday, get_shifted_collection_day returns the 'no shift' value "".
C1_WeekendHolidayNoShift ==
    (call.op = "get_shifted_collection_day" /\ call.zone \in ZONES
        /\ weekday(call.date) \in {5, 6})
    => call.result = ""

\* Independence Day 2026, a Saturday, has been asked for a zone of the chart.
C1_Witness ==
    /\ call.op = "get_shifted_collection_day"
    /\ call.zone = "Zone 2"
    /\ call.date = date(2026, 7, 4)
    /\ weekday(call.date) = 5
    /\ call.result = ""

\* C2: for every zone of Zone 1..4 and every holiday date falling Monday to
\* Friday, get_shifted_collection_day returns the chart's entry for the zone
\* and that weekday, itself one of Monday..Friday; a Thursday holiday
\* (Christmas Day 2025) gives Monday, Tuesday, Wednesday and Friday for Zones
\* 1, 2, 3 and 4, and a Friday holiday gives Thursday for Zone 4.
C2_WeekdayHolidayShiftsPerChart ==
    (call.op = "get_shifted_collection_day" /\ call.zone \in ZONES
        /\ weekday(call.date) \in 0..4)
    => /\ call.result = HOLIDAY_SHIFT_RULES[call.zone][DAY_NAMES[weekday(call.date) + 1]]
       /\ call.result \in WEEKDAY_NAMES
       /\ weekday(date(2025, 12, 25)) = 3
       /\ weekday(call.date) = 3 =>
            call.result = CASE call.zone = "Zone 1" -> "Monday"
                            [] call.zone = "Zone 2" -> "Tuesday"
                            [] call.zone = "Zone 3" -> "Wednesday"
                            [] call.zone = "Zone 4" -> "Friday"
       /\ (weekday(call.date) = 4 /\ call.zone = "Zone 4") => call.result = "Thursday"

\* Christmas Day 2025 has been asked for Zone 3 and gave Wednesday.
C2_Witness ==
    /\ call.op = "get_shifted_collection_day"
    /\ call.zone = "Zone 3"
    /\ call.date = date(2025, 12, 25)
    /\ call.result = "Wednesday"

\* C3: for every year Y, get_all_holidays_for_year(Y) returns exactly the 8
\* holidays New Year's Day, Martin Luther King Jr. Day, Memorial Day,
\* Juneteenth, Independence Day, Labor Day, Thanksgiving Day and Christmas
\* Day, all dated in year Y; MLK Day is the 3rd Monday of January, Memorial
\* Day the last Monday of May, Labor Day the 1st Monday of September and
\* Thanksgiving the 4th Thursday of November.
C3_EightHolidaysByRule ==
    call.op = "get_all_holidays_for_year"
    => /\ ~call.result.raised
       /\ LET h == call.result.value
              on(i, wd, month, lo, hi) ==
                  /\ weekday(h[i].date) = wd
                  /\ month_of(h[i].date) = month
                  /\ day_of(h[i].date) \in lo..hi
          IN /\ Len(h) = 8
             /\ [i \in 1..8 |-> h[i].name] =
                   <<"New Year's Day", "Martin Luther King Jr. Day", "Memorial Day",
                     "Juneteenth", "Independence Day", "Labor Day",
                     "Thanksgiving Day", "Christmas Day">>
             /\ \A i \in 1..8 : year_of(h[i].date) = call.year
             /\ on(2, 0, 1, 15, 21)
             /\ on(3, 0, 5, 25, 31)
             /\ on(6, 0, 9, 1, 7)
             /\ on(7, 3, 11, 22, 28)

\* The holidays of 2025 have been computed: MLK Day on 20 January, Memorial
\* Day on 26 May.
C3_Witness ==
    /\ call.op = "get_all_holidays_for_year"
    /\ call.year = 2025
    /\ ~call.result.raised
    /\ call.result.value[2].date = date(2025, 1, 20)
    /\ call.result.value[3].date = date(2025, 5, 26)

\* C4: for any date D, inside the generated 53-week table or not,
\* get_recycling_type_for_date(D) differs from that of D + 7 days and equals
\* that of D + 14 days.
C4_AlternatesForAnyDate ==
    call.op = "get_recycling_type_for_date"
    => /\ call.result # get_recycling_type_for_date(call.date + 7)
       /\ call.result = get_recycling_type_for_date(call.date + 14)

\* The other type.
Opposite(t) == IF t = "Paper" THEN "Commingled" ELSE "Paper"

\* C5: for a date whose week lies before the anchor Monday, the recycling
\* type follows the parity of the floor-divided number of weeks between the
\* week's Monday and the anchor: odd gives the type opposite to the anchor's
\* (Commingled), even gives the anchor's (Paper).
C5_ParityBeforeAnchor ==
    (call.op = "get_recycling_type_for_date" /\ monday_of(call.date) < FIRST_PAPER_2026)
    => LET weeks_elapsed == (monday_of(call.date) - FIRST_PAPER_2026) \div 7
       IN call.result = IF weeks_elapsed % 2 = 0 THEN "Paper" ELSE Opposite("Paper")

\* C6: with the anchor Monday 2026-01-05 classified Paper, every date of the
\* week that starts i weeks after the anchor, 0 <= i <= 52, is Paper when i is
\* even and Commingled when i is odd, all seven days alike; 2026-01-12 is
\* Commingled and 2026-01-19 is Paper.
C6_TableWeeksAlternate ==
    (call.op = "get_recycling_type_for_date"
        /\ date(2026, 1, 5) <= call.date /\ call.date < date(2026, 1, 5) + 7 * 53)
    => LET i == (call.date - date(2026, 1, 5)) \div 7
       IN /\ call.result = IF i % 2 = 0 THEN "Paper" ELSE "Commingled"
          /\ call.date = date(2026, 1, 12) => call.result = "Commingled"
          /\ call.date = date(2026, 1, 19) => call.result = "Paper"

\* The Sunday of the table's last week (i = 52) has been classified Paper.
C6_Witness ==
    /\ call.op = "get_recycling_type_for_date"
    /\ call.date = date(2026, 1, 5) + 7 * 52 + 6
    /\ call.result = "Paper"

\* The override table holds a note for (d, zone).
HasOverride(zone, d) ==
    /\ HOLIDAY_OVERRIDES.kind = "dict"
    /\ isoformat(d) \in DOMAIN HOLIDAY_OVERRIDES.items
    /\ HOLIDAY_OVERRIDES.items[isoformat(d)].kind = "dict"
    /\ zone \in DOMAIN HOLIDAY_OVERRIDES.items[isoformat(d)].items
    /\ HOLIDAY_OVERRIDES.items[isoformat(d)].items[zone].some

\* C7: if the override table holds a note for (reference date, zone), the
\* holiday note of the reminder for that zone and date is exactly that
\* string, whatever get_next_holiday_shift or holiday_note_from_rules would
\* compute for the week.
C7_OverrideUsedVerbatim ==
    (call.op = "reminder" /\ call.zone \in ZONES /\ HasOverride(call.zone, call.date))
    => /\ ~call.result.raised
       /\ call.result.holiday_note =
             HOLIDAY_OVERRIDES.items[isoformat(call.date)].items[call.zone]
       /\ call.result.consulted = <<"overrides">>

\* The reminder for Zone 3 on Christmas Day 2025 carries the override although
\* the zone index has a note of its own for that week.
C7_Witness ==
    /\ call.op = "reminder"
    /\ call.zone = "Zone 3"
    /\ call.date = date(2025, 12, 25)
    /\ HasOverride(call.zone, call.date)
    /\ get_next_holiday_shift(call.zone, call.date).value.some
    /\ call.result.holiday_note = Str("Christmas: pickup moves to Saturday.")
    /\ call.result.vars_map[2] = "Christmas: pickup moves to Saturday."

\* Whether s is a prefix of t.
IsPrefix(s, t) == Len(s) <= Len(t) /\ \A i \in 1..Len(s) : s[i] = t[i]

\* C8: the holiday note is resolved in the order override table, zone holiday
\* index, HOLIDAY_RULES table: a lower source is consulted only when every
\* higher one yielded no note, never replaces a note from a higher one, and
\* when all three yield nothing the note is null.
C8_PrecedenceOrder ==
    (call.op = "reminder" /\ call.zone \in ZONES)
    => LET res == call.result
           o == holiday_note_from_overrides(call.zone, call.date)
           g == get_next_holiday_shift(call.zone, call.date)
           r == holiday_note_from_rules(call.zone, call.date)
           asked(src) == \E i \in 1..Len(res.consulted) : res.consulted[i] = src
           none(x) == x.raised \/ ~x.value.some
       IN /\ IsPrefix(res.consulted, <<"overrides", "index", "rules">>)
          /\ asked("overrides")
          /\ asked("index") <=> (~o.raised /\ ~o.value.some)
          /\ asked("rules") <=> (~o.raised /\ ~o.value.some /\ none(g))
          /\ ~res.raised =>
               res.holiday_note = IF o.value.some THEN o.value
                                  ELSE IF ~none(g) THEN g.value
                                  ELSE IF ~none(r) THEN r.value
                                  ELSE None

\* A reminder whose note came from the rules table after the override table
\* and the zone index both yielded none.
C8_Witness ==
    /\ call.op = "reminder"
    /\ call.zone \in ZONES
    /\ call.result.consulted = <<"overrides", "index", "rules">>
    /\ ~holiday_note_from_overrides(call.zone, call.date).value.some
    /\ ~get_next_holiday_shift(call.zone, call.date).value.some
    /\ call.result.holiday_note.some

\* The week of d, Monday to Sunday, holds one of the holidays that
\* get_all_holidays_for_year gives for the years the week touches.
HolidayInWeek(d) ==
    \E y \in {year_of(monday_of(d)), year_of(monday_of(d) + 6)} :
       \E i \in 1..Len(get_all_holidays_for_year(y).value) :
          /\ monday_of(d) <= get_all_holidays_for_year(y).value[i].date
          /\ get_all_holidays_for_year(y).value[i].date <= monday_of(d) + 6

\* C9: for every valid zone and reference date, if a recognized holiday's date
\* lies in the Monday-Sunday week of the reference date, the holiday note is
\* non-null, also when the week straddles a year boundary (reference date in
\* late December, New Year's Day of the next year in the same week).
C9_HolidayWeekHasNote ==
    (call.op = "reminder" /\ call.zone \in ZONES /\ call.result.status = "send"
        /\ HolidayInWeek(call.date))
    => call.result.holiday_note.some

\* C10: for every valid zone and reference date without an override entry, if
\* none of the holidays of get_all_holidays_for_year falls in the week of the
\* reference date, the reminder's holiday note is null and the basic template
\* is used.
C10_NoHolidayNoNote ==
    (call.op = "reminder" /\ call.zone \in ZONES /\ call.result.status = "send"
        /\ ~HasOverride(call.zone, call.date) /\ ~HolidayInWeek(call.date))
    => /\ ~call.result.holiday_note.some
       /\ call.result.template = call.template_basic
       /\ Len(call.result.vars_map) = 2

\* The holidays of the reference date's year that lie in its Monday-Sunday week.
HolidaysFound(d) ==
    With(get_all_holidays_for_year(year_of(d)),
         LAMBDA hs : {hs.value[i] : i \in {j \in 1..Len(hs.value) :
                                             /\ monday_of(d) <= hs.value[j].date
                                             /\ hs.value[j].date <= monday_of(d) + 6}})

C12_OneHolidayPerWeek ==
    /\ (call.op = "get_all_holidays_for_year" /\ ~call.result.raised)
         => \A i, j \in 1..Len(call.result.value) :
               i < j => monday_of(call.result.value[i].date)
                          # monday_of(call.result.value[j].date)
    /\ (call.op = "get_next_holiday_shift" /\ call.zone \in ZONES)
         => /\ Cardinality(HolidaysFound(call.date)) <= 1
            /\ call.result.value.some <=> HolidaysFound(call.date) # {}
            /\ \A other \in monday_of(call.date)..(monday_of(call.date) + 6) :
                  /\ first_in_week(<<[date |-> call.date], [date |-> other]>>,
                                   monday_of(call.date), monday_of(call.date) + 6) = 1
                  /\ first_in_week(<<[date |-> call.date - 7], [date |-> other],
                                     [date |-> call.date]>>,
                                   monday_of(call.date), monday_of(call.date) + 6) = 2

\* The holiday list of 2026 has been computed: Juneteenth (Friday 19 June)
\* and Independence Day (Saturday 4 July) are its closest pair, two weeks apart.
C12_Witness ==
    /\ call.op = "get_all_holidays_for_year"
    /\ call.year = 2026
    /\ ~call.result.raised
    /\ Len(call.result.value) = 8
    /\ \E i, j \in 1..8 :
          /\ i < j
          /\ call.result.value[j].date - call.result.value[i].date = 15
          /\ monday_of(call.result.value[j].date) - monday_of(call.result.value[i].date) = 14

\* C13: for a zone outside {Zone 1, Zone 2, Zone 3, Zone 4}, the empty zone
\* included, get_shifted_collection_day returns the "no shift" value ("") and
\* get_next_holiday_shift returns null, for every date and without raising.
C13_UnknownZoneNoShift ==
    /\ (call.op = "get_shifted_collection_day" /\ call.zone \notin ZONES)
         => call.result = ""
    /\ (call.op = "get_next_holiday_shift" /\ call.zone \notin ZONES)
         => (~call.result.raised /\ call.result.value = None)

\* get_next_holiday_shift has answered null for "Zone 9" on Christmas Day
\* 2025, a week in which every chart zone gets a note.
C13_Witness ==
    /\ call.op = "get_next_holiday_shift"
    /\ call.zone = "Zone 9"
    /\ call.date = date(2025, 12, 25)
    /\ call.result = Return(None)
    /\ \A z \in ZONES : get_next_holiday_shift(z, call.date).value.some

\* C14: resolving the schedule of a (zone, date) pair is pure: no step of a
\* resolution changes the override table, the rule table or the subscriber
\* list, and every call for the pair, in any interleaving with other calls,
\* returns the same (recycling type, holiday note): the first result returned
\* for the pair, which is the value computed from the pair and the tables alone.
C14_ResolvePure ==
    /\ [](\A p \in Callers :
            resolver[p].pc = "returned"
            => /\ (resolver[p].zone = memo.zone /\ resolver[p].date = memo.date)
                    => (memo.seen /\ resolver[p].result = memo.result)
               /\ resolver[p].result.recycling_type
                    = get_recycling_type_for_date(resolver[p].date)
               /\ resolver[p].result.raised
                    = holiday_note_chain(resolver[p].zone, resolver[p].date).raised
               /\ resolver[p].result.holiday_note
                    = holiday_note_chain(resolver[p].zone, resolver[p].date).note)
    /\ [][UNCHANGED <<HOLIDAY_OVERRIDES, HOLIDAY_RULES, USERS>>]_vars

\* Both callers have a result for the same pair, one computed from a fresh
\* index and one from the cached index, after an earlier call for the pair.
C14_Witness ==
    /\ resolver[1].pc = "returned"
    /\ resolver[2].pc = "returned"
    /\ resolver[1].zone = resolver[2].zone
    /\ resolver[1].date = resolver[2].date
    /\ resolver[1].zone = memo.zone
    /\ resolver[1].date = memo.date
    /\ resolver[1].hit /\ ~resolver[2].hit
    /\ resolver[1].result.holiday_note.some
    /\ Len(scrape_cache) = 2

\* A table that is not the expected mapping of mappings.
Malformed(table) ==
    \/ table.kind # "dict"
    \/ \E k \in DOMAIN table.items : table.items[k].kind # "dict"

\* C15: a malformed override or rule table (JSON that does not parse, or a
\* value that is not the expected mapping) is treated as "no overrides
\* available": the reminder batch does not fail because of it, the cron
\* process does not exit with an error, and with an unusable override table
\* the notes sent are those of the rule-based holiday index.
C15_MalformedTableIgnored ==
    (Malformed(HOLIDAY_OVERRIDES) \/ Malformed(HOLIDAY_RULES))
    => /\ job.pc # "raised"
       /\ cron.pc = "exited" => cron.code = 0
       /\ (job.pc = "returned" /\ HOLIDAY_OVERRIDES.kind # "dict")
            => \A k \in 1..Len(job.results) :
                  job.results[k].status = "queued"
                  => \E u \in {job.subs[n] : n \in 1..Len(job.subs)} :
                        /\ normalize_whatsapp_number(u.phone) = job.results[k].phone
                        /\ LET g == get_next_holiday_shift(title(u.zone), job.tomorrow)
                           IN IF Truthy(g.value)
                              THEN /\ Len(job.results[k].vars_map) = 3
                                   /\ job.results[k].vars_map[2] = g.value.val
                              ELSE Len(job.results[k].vars_map) = 2

\* The subscribers of the run, with their place in the list.
Places == 1..Len(job.subs)

\* The place of the subscriber an outcome belongs to: the first record of
\* the list with the outcome's phone.
PlaceOf(outcome) ==
    CHOOSE n \in Places :
       /\ normalize_whatsapp_number(job.subs[n].phone) = outcome.phone
       /\ \A m \in 1..(n - 1) : normalize_whatsapp_number(job.subs[m].phone) # outcome.phone

\* C16: in send_weekly_reminders a failure while sending to one recipient is
\* recorded as that recipient's outcome, with status "error", and does not
\* abort the batch: the loop goes on to every later subscriber, the run never
\* ends in an exception because of a send, and the function returns the list
\* of outcomes with the failed recipient's outcome in it.
C16_SendFailureIsPerRecipient ==
    job.pc \in {"loop", "returned", "raised"}
    => /\ \A k \in 1..Len(job.results) :
             job.results[k].status = "error"
             => /\ job.results[k].error = "send failed"
                /\ \E n \in Places :
                      normalize_whatsapp_number(job.subs[n].phone) = job.results[k].phone
                /\ PlaceOf(job.results[k]) < job.i
                /\ \A m \in 1..Len(outbox) : outbox[m].to # job.results[k].phone
                /\ job.pc = "returned" => job.i = Len(job.subs) + 1
       /\ job.pc = "raised"
            => reminder_for(title(job.subs[job.i].zone), job.subs[job.i].street_label,
                            job.tomorrow, job.template_basic,
                            job.template_holiday).status = "raised"
       /\ job.pc = "loop" => Len(job.results) < job.i

\* A run has returned its list: the send to the first subscriber failed and
\* the second subscriber was sent the reminder all the same.
C16_Witness ==
    /\ job.pc = "returned"
    /\ Len(job.results) = 2
    /\ job.results[1].status = "error"
    /\ job.results[2].status = "queued"
    /\ PlaceOf(job.results[1]) < PlaceOf(job.results[2])
    /\ Len(outbox) = 1
    /\ outbox[1].to = job.results[2].phone

\* The subscriber at place n of the run is one a reminder can go to: the
\* first record with its phone, with an address, a collection day and a
\* chart zone.
Reachable(n) ==
    /\ normalize_whatsapp_number(job.subs[n].phone) # <<>>
    /\ \A m \in 1..(n - 1) : normalize_whatsapp_number(job.subs[m].phone)
                                # normalize_whatsapp_number(job.subs[n].phone)
    /\ job.subs[n].street_address # <<>>
    /\ job.subs[n].collection_day # ""
    /\ title(job.subs[n].zone) \in ZONES

\* The run attempted a reminder to the subscriber at place n.
Attempted(n) ==
    \E k \in 1..Len(job.results) :
       /\ job.results[k].phone = normalize_whatsapp_number(job.subs[n].phone)
       /\ job.results[k].status \in {"queued", "error"}

\* C17: reminders go out the night before the household's actual pickup,
\* holiday shifts included: in a week where a Monday-Friday holiday moves the
\* zone's collection to weekday Y, a subscriber of the zone gets the reminder
\* in the run of the evening before Y (the run whose tomorrow is Y), and in
\* no other run of that week.
C17_ReminderBeforeShiftedDay ==
    (job.pc = "returned" /\ job.template_basic # "")
    => \A n \in Places :
          Reachable(n)
          => \A h \in HolidaysFound(job.tomorrow) :
                weekday(h.date) <= 4
                => (Attempted(n)
                      <=> strftime_A(job.tomorrow)
                            = get_shifted_collection_day(h.date, title(job.subs[n].zone)))

\* C18: send_weekly_reminders sends a message to a subscriber only if the
\* weekday of tomorrow (the US/Eastern date plus one day) equals the
\* subscriber's stored collection_day, compared as the code reads it (title
\* case); a subscriber whose collection_day differs or is missing is never
\* sent a message in that run.
C18_OnlyOnCollectionDay ==
    job.pc \in {"loop", "returned", "raised"}
    => /\ job.tomorrow = now.date + 1
       /\ \A m \in 1..Len(outbox) :
             /\ \E n \in Places : normalize_whatsapp_number(job.subs[n].phone) = outbox[m].to
             /\ title(job.subs[PlaceOf(outbox[m] @@ [phone |-> outbox[m].to])].collection_day)
                  = DAY_NAMES[weekday(now.date + 1) + 1]
       /\ \A n \in Places :
             (/\ \A k \in 1..(n - 1) : normalize_whatsapp_number(job.subs[k].phone)
                                          # normalize_whatsapp_number(job.subs[n].phone)
              /\ \/ job.subs[n].collection_day = ""
                 \/ title(job.subs[n].collection_day) # DAY_NAMES[weekday(now.date + 1) + 1])
             => /\ \A m \in 1..Len(outbox) :
                      outbox[m].to # normalize_whatsapp_number(job.subs[n].phone)
                /\ \A k \in 1..Len(job.results) :
                      job.results[k].phone = normalize_whatsapp_number(job.subs[n].phone)
                      => job.results[k].status = "skipped"

\* A run on Wednesday evening has returned: the subscriber stored with
\* "thursday" was sent a message, the one stored with "Monday" was not.
C18_Witness ==
    /\ job.pc = "returned"
    /\ strftime_A(job.tomorrow) = "Thursday"
    /\ \E n1, n2 \in Places :
          /\ job.subs[n1].collection_day = "thursday"
          /\ job.subs[n2].collection_day = "Monday"
          /\ \E m \in 1..Len(outbox) :
                outbox[m].to = normalize_whatsapp_number(job.subs[n1].phone)
          /\ \A m \in 1..Len(outbox) :
                outbox[m].to # normalize_whatsapp_number(job.subs[n2].phone)

C20_UpsertByPhone ==
    /\ \A i, j \in 1..Len(USERS) : i # j => USERS[i].phone # USERS[j].phone
    /\ \A i \in 1..Len(USERS) :
          /\ USERS[i].phone # <<>>
          /\ USERS[i].phone = normalize_whatsapp_number(USERS[i].phone)
    /\ (call.op = "webhook" /\ call.status = 200)
         => LET phone == normalize_whatsapp_number(call.request.phone_number)
                on_file == {i \in 1..Len(USERS) : USERS[i].phone = phone}
            IN /\ Cardinality(on_file) = 1
               /\ \A i \in on_file :
                     /\ USERS[i].street_address = call.request.street_address
                     /\ call.request.zone = "zone 2" => USERS[i].zone = "Zone 2"
                     /\ call.request.collection_day = "friday"
                          => USERS[i].collection_day = "Friday"
               /\ Len(USERS) = call.users_before + (IF call.is_new THEN 1 ELSE 0)
               /\ call.is_new <=> (on_file = {Len(USERS)} /\ Len(USERS) = call.users_before + 1)

\* Two phones are on file and the last POST, for the first phone in another
\* spelling and with another address, was accepted and updated its record.
C20_Witness ==
    /\ call.op = "webhook"
    /\ call.status = 200
    /\ ~call.is_new
    /\ Len(USERS) = 2
    /\ call.request.phone_number = <<"+", "1", " ", "5", "5", "5", "-", "1">>
    /\ USERS[1].phone = Phone("1")
    /\ USERS[1].street_address = Montgomery
    /\ USERS[1].zone = "Zone 2"

\* The welcome messages delivered to the phone so far.
Welcomes(phone) ==
    {k \in 1..Len(outbox) :
        outbox[k].to = phone /\ outbox[k].template = TWILIO_TEMPLATE_SID_WELCOME}

\* C21: the WELCOME template is sent only once per phone number: over any
\* sequence of sign-up POSTs and STOP messages, no phone number is sent the
\* welcome message more than once.
C21_WelcomeOncePerPhone ==
    \A k \in 1..Len(outbox) : Cardinality(Welcomes(outbox[k].to)) <= 1

\* The record's phone equals the sender, letter case aside.
FromSender(u, from_number) == lower_phone(u.phone) = lower_phone(from_number)

\* C22: an inbound message whose body is stop / stop all / cancel /
\* unsubscribe / quit / end (in any letter case) removes every record whose
\* phone equals the sender case-insensitively and leaves every other record
\* as it was, in its order; the reply is "unsubscribed" when a record was
\* removed and "not currently subscribed" otherwise; no record of the sender
\* remains.
C22_StopRemovesSender ==
    (/\ call.op = "whatsapp_webhook"
     /\ call.from_number # <<>>
     /\ call.body \in {"STOP", "stop all", "Cancel", "unsubscribe", "quit", "end"})
    => /\ USERS = SelectSeq(call.users_before,
                            LAMBDA u : ~FromSender(u, call.from_number))
       /\ \A k \in 1..Len(USERS) : ~FromSender(USERS[k], call.from_number)
       /\ call.reply = IF \E k \in 1..Len(call.users_before) :
                              FromSender(call.users_before[k], call.from_number)
                       THEN "unsubscribed" ELSE "not_subscribed"

\* Two phones were on file; "Cancel" from the second, its scheme spelled
\* "WhatsApp:", removed that record and left the first one.
C22_Witness ==
    /\ call.op = "whatsapp_webhook"
    /\ call.body = "Cancel"
    /\ call.from_number = <<"WhatsApp:", "+", "1", "5", "5", "5", "2">>
    /\ call.reply = "unsubscribed"
    /\ Len(call.users_before) = 2
    /\ Len(USERS) = 1
    /\ USERS[1].phone = Phone("1")

\* The days of the month that fall on the weekday, found by date arithmetic.
Occurrences(year, month, wd) ==
    {dd \in 1..days_in_month(year, month) : weekday(date(year, month, dd)) = wd}

\* The holiday rules that name an occurrence of a weekday: 3rd Monday of
\* January, last Monday of May, 1st Monday of September, 4th Thursday of
\* November.
RuleInstances ==
    { <<1, MONDAY, 3>>, <<5, MONDAY, -1>>, <<9, MONDAY, 1>>, <<11, THURSDAY, 4>> }

\* C23: nth_weekday_of_month ends in an error exactly when the requested
\* occurrence of the weekday does not exist in the month (n = -1 asks for the
\* last one, which always exists; otherwise n must be between 1 and the
\* number of occurrences), and never for the rule instances of the holiday
\* list, in any year.
C23_MissingOccurrenceRaises ==
    call.op = "nth_weekday_of_month"
    => LET occ == Occurrences(call.year, call.month, call.weekday)
           exists == IF call.n = -1 THEN occ # {}
                     ELSE call.n >= 1 /\ call.n <= Cardinality(occ)
       IN /\ call.result.raised <=> ~exists
          /\ <<call.month, call.weekday, call.n>> \in RuleInstances
               => ~call.result.raised

\* The 5th Monday of February 2026, a month with four Mondays, was asked
\* for and the call ended in an error.
C23_Witness ==
    /\ call.op = "nth_weekday_of_month"
    /\ call.year = 2026
    /\ call.month = 2
    /\ call.weekday = MONDAY
    /\ call.n = 5
    /\ Cardinality(Occurrences(2026, 2, MONDAY)) = 4
    /\ call.result.raised

\* C24: for each reminder sent, the template is the holiday one exactly when
\* a holiday note is present and the basic one otherwise, and the variables
\* match the template: (address, holiday note, recycling type) for the
\* holiday template, (address, recycling type) for the basic one.
C24_TemplateMatchesNote ==
    (call.op = "reminder" /\ call.result.status = "send")
    => LET r == call.result
       IN IF Truthy(r.holiday_note)
          THEN /\ r.template = "HXholiday"
               /\ r.vars_map = <<"229 Ardleigh Rd", r.holiday_note.val, r.recycling_type>>
          ELSE /\ r.template = "HXbasic"
               /\ r.vars_map = <<"229 Ardleigh Rd", r.recycling_type>>

\* The place of the first record of the run's list whose phone normalizes to
\* the phone given.
FirstRecord(phone) ==
    CHOOSE n \in 1..Len(job.subs) :
       /\ normalize_whatsapp_number(job.subs[n].phone) = phone
       /\ \A m \in 1..(n - 1) : normalize_whatsapp_number(job.subs[m].phone) # phone

\* C25: within one run of send_weekly_reminders at most one message is sent
\* (and at most one outcome reported) per normalized phone number, also when
\* the list holds several records of the phone; the message is the one of
\* the first such record.
C25_OneMessagePerPhone ==
    job.pc # "idle"
    => /\ \A i, j \in 1..Len(outbox) : i # j => outbox[i].to # outbox[j].to
       /\ \A i, j \in 1..Len(job.results) :
             i # j => job.results[i].phone # job.results[j].phone
       /\ \A k \in 1..Len(outbox) :
             /\ \E n \in 1..Len(job.subs) :
                   normalize_whatsapp_number(job.subs[n].phone) = outbox[k].to
             /\ outbox[k].vars_map[1] = job.subs[FirstRecord(outbox[k].to)].street_label

\* The run is over a list with two records of one phone, spelled
\* differently, both due tomorrow; one message went to that phone, with the
\* address of the first record.
C25_Witness ==
    /\ job.pc = "returned"
    /\ Len(job.subs) = 3
    /\ job.subs[2].phone = <<"5", "5", "5", "5">>
    /\ normalize_whatsapp_number(job.subs[2].phone) = job.subs[1].phone
    /\ job.subs[1].collection_day = job.subs[2].collection_day
    /\ \E k \in 1..Len(outbox) :
          /\ outbox[k].to = job.subs[1].phone
          /\ outbox[k].vars_map[1] = "229 Ardleigh Rd"

\* The POST body is one the handler must reject: not JSON, no phone or no
\* address, a consent text without "agree", or a phone without any digit or
\* plus sign.
Rejected(req) ==
    \/ ~req.json_ok
    \/ \A k \in 1..Len(req.phone_number) : req.phone_number[k] = " "
    \/ req.street_address = <<>>
    \/ req.consent \in {"no", ""}
    \/ \A k \in 1..Len(req.phone_number) : req.phone_number[k] \notin DIGITS \cup {"+"}

\* C26: a sign-up POST that is rejected (invalid JSON, missing phone or
\* address, consent without "agree", a phone that normalizes to empty) is
\* answered 400, leaves the subscriber list as it was and sends no welcome
\* message; every other POST is answered 200.
C26_RejectedPostChangesNothing ==
    [][\A req \in SignupRequests :
          (call'.op = "webhook" /\ call'.request = req)
          => IF Rejected(req)
             THEN call'.status = 400 /\ USERS' = USERS /\ outbox' = outbox
             ELSE call'.status = 200]_vars

\* A record is on file and the last POST, whose phone has no digit, was
\* answered 400.
C26_Witness ==
    /\ call.op = "webhook"
    /\ call.status = 400
    /\ call.request.phone_number = <<"e", "x", "t", ".">>
    /\ call.users_before = Len(USERS)
    /\ Len(USERS) >= 1

\* C27: when two sign-up POSTs for the same phone number are handled at the
\* same time, their lookups and appends interleaved, the list ends with
\* exactly one record of that phone and the welcome message is sent exactly
\* once (the template being configured and the phone new).
C27_ConcurrentSignupsOneRecord ==
    (/\ \A p \in Callers : handler[p].pc = "done" /\ handler[p].status = 200
     /\ \A p \in Callers : handler[p].phone = Phone("1"))
    => /\ Cardinality({k \in 1..Len(USERS) : USERS[k].phone = Phone("1")}) = 1
       /\ Cardinality({p \in Callers : handler[p].welcome # "none"})
            = IF TWILIO_TEMPLATE_SID_WELCOME = "" THEN 0 ELSE 1

\* C28: for every zone and every weekday w from Monday to Friday the chart's
\* entry HOLIDAY_SHIFT_RULES[zone][w] is a weekday other than w, and so is
\* every shifted day get_shifted_collection_day returns: collection is never
\* scheduled on the weekday of the holiday itself.
C28_ShiftedDayIsAnotherDay ==
    /\ \A z \in ZONES :
          /\ DOMAIN HOLIDAY_SHIFT_RULES[z] = WEEKDAY_NAMES
          /\ \A w \in WEEKDAY_NAMES :
                HOLIDAY_SHIFT_RULES[z][w] \in WEEKDAY_NAMES \ {w}
    /\ (call.op = "get_shifted_collection_day" /\ call.result # "")
         => call.result # DAY_NAMES[weekday(call.date) + 1]

\* A Friday holiday was looked up for Zone 4, whose chart row says Friday
\* for every other weekday: the answer was Thursday.
C28_Witness ==
    /\ call.op = "get_shifted_collection_day"
    /\ call.zone = "Zone 4"
    /\ weekday(call.date) = 4
    /\ call.result = "Thursday"
=============================================================================
